---------------------------- MODULE Spec2Model ----------------------------
(***************************************************************************)
(* A model of the production dashboard: app/db.py (schema validation and   *)
(* the date-range query) and app/streamlit_app.py (the memoized load, the  *)
(* reshape/aggregate pipeline, the KPI and top-styles summaries and the    *)
(* main() script that Streamlit reruns on every interaction).              *)
(*                                                                         *)
(* Three specifications share the module:                                  *)
(*   SpecSchema    _get_schema / _table_ident over configured strings      *)
(*   SpecPipeline  melt_hourly, hourly_detail_grid, kpi_cards and          *)
(*                 top_styles_table applied to bounded data frames         *)
(*   Spec          main(): one action per rerun of the script, with the    *)
(*                 table, the clock and the memoization as environment     *)
(***************************************************************************)
EXTENDS Integers, Sequences, FiniteSets, TLC

VARIABLES
    secrets_schema,  \* st.secrets["postgres"]["schema"], or None
    env_schema,      \* the PGSCHEMA environment variable, or None when unset
    ident,           \* what _table_ident() returned, or None before the call
    df,              \* the data frame handed to the pipeline functions
    style_order,     \* the style_order argument of hourly_detail_grid
    out,             \* the last pipeline function applied and its result
    today,           \* dt.date.today()
    table,           \* <schema>.production_data: does it exist, and its rows
    cache,           \* st.cache_data entries of load_data, keyed by its arguments
    fetched,         \* history: keys fetched successfully and neither cleared nor expired since
    last             \* what the latest run of main() did and rendered

vars == <<secrets_schema, env_schema, ident, df, style_order, out,
          today, table, cache, fetched, last>>

schemaVars == <<secrets_schema, env_schema, ident>>
pipelineVars == <<df, style_order, out>>
dashboardVars == <<today, table, cache, fetched, last>>

\* Python's None where a style, line or category string is expected.
None == "None"

\* Python's None where a string modelled as a character sequence is expected.
NoString == <<"None">>

\* SQL NULL / pandas NaN in a numeric cell (quantities are non-negative counts).
NULL == -1

---------------------------------------------------------------------------
(* Generic helpers *)

Range(s) == {s[i] : i \in DOMAIN s}

RECURSIVE SumSeq(_)
SumSeq(s) == IF s = <<>> THEN 0 ELSE Head(s) + SumSeq(Tail(s))

\* All sequences over S of length at most n.
BoundedSeq(S, n) == UNION {[1..k -> S] : k \in 0..n}

\* [x for x in s if x in S]
FilterIn(s, S) == SelectSeq(s, LAMBDA x : x \in S)

\* [x for x in s if x not in S]
FilterOut(s, S) == SelectSeq(s, LAMBDA x : x \notin S)

---------------------------------------------------------------------------
(* app/db.py: _get_schema, _table_ident                                    *)
(* Strings are sequences of one-character strings.                         *)

Letters == {"p", "u", "b", "l", "i", "c", "x", "D", "R", "O", "P", "T", "A", "B", "L", "E"}
Digits == {"0", "1"}
Underscore == "_"
Newline == "\n"

\* [A-Za-z_]
IsHeadChar(c) == c \in Letters \/ c = Underscore

\* [A-Za-z0-9_]
IsWordChar(c) == c \in Letters \/ c \in Digits \/ c = Underscore

\* re.match(r"$", s, pos): at the end of the string, or just before a newline
\* that is the last character of the string.
DollarAt(s, pos) ==
    \/ pos = Len(s) + 1
    \/ pos = Len(s) /\ s[pos] = Newline

\* re.match(r"^[A-Za-z_][A-Za-z0-9_]*$", s) is not None
SchemaPatternMatches(s) ==
    /\ Len(s) >= 1
    /\ IsHeadChar(s[1])
    /\ \E k \in 1..Len(s) :
          /\ \A i \in 2..k : IsWordChar(s[i])
          /\ DollarAt(s, k + 1)

Public == <<"p", "u", "b", "l", "i", "c">>

TableSuffix == <<".", "p", "r", "o", "d", "u", "c", "t", "i", "o", "n", "_", "d", "a", "t", "a">>

\* _get_schema(): secrets first, the environment (default "public") when the
\* secret is missing or empty, "public" when the pattern does not match.
get_schema(secret, env) ==
    LET fromSecrets == secret
        schema == IF fromSecrets = NoString \/ fromSecrets = <<>>
                  THEN (IF env = NoString THEN Public ELSE env)
                  ELSE fromSecrets
    IN  IF ~SchemaPatternMatches(schema) THEN Public ELSE schema

\* _table_ident(): f"{_get_schema()}.production_data"
table_ident(secret, env) == get_schema(secret, env) \o TableSuffix

MaxSchemaLen == 3

SchemaAlphabet == {"p", "1", Underscore, ";", Newline}

\* "public; DROP TABLE x"
InjectionExample ==
    Public \o <<";", " ", "D", "R", "O", "P", " ", "T", "A", "B", "L", "E", " ", "x">>

ConfiguredStrings ==
    BoundedSeq(SchemaAlphabet, MaxSchemaLen) \cup {Public, InjectionExample, Public \o <<Newline>>}

ConfiguredValues == ConfiguredStrings \cup {NoString}

SchemaIdle == secrets_schema = NoString /\ env_schema = NoString /\ ident = NoString

InitSchema ==
    /\ secrets_schema \in ConfiguredValues
    /\ env_schema \in ConfiguredValues
    /\ ident = NoString

\* A caller (fetch_production) asks for the table identifier.
TableIdent ==
    /\ ident = NoString
    /\ ident' = table_ident(secrets_schema, env_schema)
    /\ UNCHANGED <<secrets_schema, env_schema, pipelineVars, dashboardVars>>

---------------------------------------------------------------------------
(* app/streamlit_app.py: the data frame and the reshape/aggregate pipeline *)

\* Calendar dates (datetime.date); NoDate is None / NULL in a date cell.
D1 == [year |-> 2024, month |-> 1, day |-> 31]
D2 == [year |-> 2024, month |-> 2, day |-> 1]
NoDate == [year |-> 0, month |-> 0, day |-> 0]

\* The dates in chronological order (the order groupby and ORDER BY sort them in).
DateSeq == <<D1, D2>>
Dates == Range(DateSeq)

\* Style numbers in ascending string order (the order groupby and pivot sort them in).
StyleSeq == <<"S01", "S02", "S03", "S04", "S05", "S06", "S07", "S08", "S09", "S10", "S11", "S12">>
\* Lines in ascending string order.
LineSeq == <<"A", "B">>
Lines == Range(LineSeq)

\* hour_cols (melt_hourly and hourly_detail_grid hold the same list)
hour_cols ==
    <<"t_0830", "t_0930", "t_1000", "t_1130", "t_1330", "t_1430", "t_1530", "t_1630",
      "t_1730", "t_1800", "overtime">>

\* The characters of each column name.
Chars(x) ==
    CASE x = "t_0830" -> <<"t", "_", "0", "8", "3", "0">>
      [] x = "t_0930" -> <<"t", "_", "0", "9", "3", "0">>
      [] x = "t_1000" -> <<"t", "_", "1", "0", "0", "0">>
      [] x = "t_1130" -> <<"t", "_", "1", "1", "3", "0">>
      [] x = "t_1330" -> <<"t", "_", "1", "3", "3", "0">>
      [] x = "t_1430" -> <<"t", "_", "1", "4", "3", "0">>
      [] x = "t_1530" -> <<"t", "_", "1", "5", "3", "0">>
      [] x = "t_1630" -> <<"t", "_", "1", "6", "3", "0">>
      [] x = "t_1730" -> <<"t", "_", "1", "7", "3", "0">>
      [] x = "t_1800" -> <<"t", "_", "1", "8", "0", "0">>
      [] x = "overtime" -> <<"o", "v", "e", "r", "t", "i", "m", "e">>

\* x.replace("t_", ""): every non-overlapping occurrence, left to right.
RECURSIVE ReplacePrefixMark(_)
ReplacePrefixMark(s) ==
    IF s = <<>> THEN <<>>
    ELSE IF Len(s) >= 2 /\ s[1] = "t" /\ s[2] = "_"
         THEN ReplacePrefixMark(SubSeq(s, 3, Len(s)))
         ELSE <<s[1]>> \o ReplacePrefixMark(Tail(s))

\* A faulty variant of to_label: the colon after the first digit ("8:30" for "08:30").
to_label_ShortHour(x) ==
    IF x = "overtime" THEN <<"O", "T">>
    ELSE LET t == ReplacePrefixMark(Chars(x))
         IN  SubSeq(t, 1, 1) \o <<":">> \o SubSeq(t, 2, Len(t))

\* to_label: "overtime" -> "OT", "t_0830" -> "08:30"
to_label(x) ==
    IF x = "overtime" THEN <<"O", "T">>
    ELSE LET t == ReplacePrefixMark(Chars(x))
         IN  SubSeq(t, 1, 2) \o <<":">> \o SubSeq(t, 3, Len(t))

\* order (hourly_detail_grid): the fixed display order of the bucket labels.
order ==
    << <<"0", "8", ":", "3", "0">>, <<"0", "9", ":", "3", "0">>, <<"1", "0", ":", "0", "0">>,
       <<"1", "1", ":", "3", "0">>, <<"1", "3", ":", "3", "0">>, <<"1", "4", ":", "3", "0">>,
       <<"1", "5", ":", "3", "0">>, <<"1", "6", ":", "3", "0">>, <<"1", "7", ":", "3", "0">>,
       <<"1", "8", ":", "0", "0">>, <<"O", "T">> >>

\* The labels of the present columns, in hour_cols order. groupby sorts its
\* keys; sorted by code point the eleven labels come in this same order
\* (digits sort before "O").
LabelsOf(present) == [i \in 1..Len(present) |-> to_label(present[i])]

\* pd.DataFrame(): no columns, no rows.
EmptyFrame == [columns |-> {}, rows |-> <<>>]

\* df.empty: no rows or no columns.
IsEmpty(frame) == frame.rows = <<>> \/ frame.columns = {}

\* A faulty variant of PresentHourCols: the overtime column left out of hour_cols.
PresentHourCols_NoOvertime(frame) == FilterIn(SubSeq(hour_cols, 1, Len(hour_cols) - 1), frame.columns)

\* present = [c for c in hour_cols if c in df.columns]
PresentHourCols(frame) == FilterIn(hour_cols, frame.columns)

\* Series.sum() / groupby(...).sum(): NaN cells are skipped, nothing sums to 0.
SumSkipNull(cells) == SumSeq(SelectSeq(cells, LAMBDA v : v # NULL))

\* df.melt(id_vars=ids, value_vars=present, var_name="time", value_name="qty")
\* followed by m["time_label"] = m["time"].map(to_label): one row per
\* (value column, input row), value columns outermost.
RECURSIVE MeltCols(_, _, _)
MeltCols(frame, ids, present) ==
    IF present = <<>> THEN <<>>
    ELSE LET c == Head(present)
             one(r) == [k \in ids |-> r[k]] @@
                       [time |-> c, qty |-> r[c], time_label |-> to_label(c)]
         IN  [i \in 1..Len(frame.rows) |-> one(frame.rows[i])]
             \o MeltCols(frame, ids, Tail(present))

\* The qty cells of the melted rows whose key columns have the given values.
QtyWhere(m, k1, v1, v2) ==
    LET hit == SelectSeq(m, LAMBDA r : r[k1] = v1 /\ r.time_label = v2)
    IN  [i \in 1..Len(hit) |-> hit[i].qty]

\* groupby([k1, "time_label"], as_index=False)["qty"].sum(): one row per
\* (key, time_label) pair that occurs, keys and labels in sorted order; the
\* rows whose key is null (not in keySeq) are dropped.
GroupRows(m, k1, keySeq, labelSeq) ==
    LET keys == FilterIn(keySeq, {m[i][k1] : i \in 1..Len(m)})
        n == Len(labelSeq)
        pairs == [j \in 1..(Len(keys) * n) |->
                    [key |-> keys[((j - 1) \div n) + 1], time_label |-> labelSeq[((j - 1) % n) + 1]]]
        occurs == SelectSeq(pairs, LAMBDA g :
                    \E i \in 1..Len(m) : m[i][k1] = g.key /\ m[i].time_label = g.time_label)
    IN  [j \in 1..Len(occurs) |->
            [key |-> occurs[j].key, time_label |-> occurs[j].time_label,
             qty |-> SumSkipNull(QtyWhere(m, k1, occurs[j].key, occurs[j].time_label))]]

\* melt_hourly(df): rows (production_date, time_label, qty); an empty frame
\* (no rows) when no hour column is present.
melt_hourly(frame) ==
    LET present == PresentHourCols(frame)
        m == MeltCols(frame, {"production_date", "line", "style_number"}, present)
        agg == GroupRows(m, "production_date", DateSeq, LabelsOf(present))
    IN  IF present = <<>> THEN <<>>
        ELSE [i \in 1..Len(agg) |->
                [production_date |-> agg[i].key, time_label |-> agg[i].time_label,
                 qty |-> agg[i].qty]]

\* piv.loc[top_idx]: one row per label of top_idx, in its order, a label that
\* is listed twice giving its row twice.
LocRows(piv, top_idx) ==
    [i \in 1..Len(top_idx) |->
        LET hit == SelectSeq(piv, LAMBDA r : r.style_number = top_idx[i]) IN hit[1]]

\* The style_order block of hourly_detail_grid: listed styles first.
Reorder(piv, so) ==
    LET index == {piv[i].style_number : i \in 1..Len(piv)}
        top_idx == FilterIn(so, index)
        piv_top == LocRows(piv, top_idx)
        piv_rest == SelectSeq(piv, LAMBDA r : r.style_number \notin Range(top_idx))
    IN  IF so # <<>> /\ top_idx # <<>> THEN piv_top \o piv_rest ELSE piv

\* hourly_detail_grid returns without rendering.
NoGrid == [columns |-> <<>>, rows |-> <<>>, rendered |-> FALSE]

\* hourly_detail_grid(locale, df, style_order): the frame handed to
\* st.dataframe: the bucket columns (a Total column follows them) and one row
\* per style. style_order None and [] take the same branch and are both <<>>.
hourly_detail_grid(frame, so) ==
    LET present == PresentHourCols(frame)
        m == MeltCols(frame, {"style_number"}, present)
        labels == LabelsOf(present)
        agg == GroupRows(m, "style_number", StyleSeq, labels)
        pivIndex == FilterIn(StyleSeq, {agg[i].key : i \in 1..Len(agg)})
        pivColumns == {agg[i].time_label : i \in 1..Len(agg)}
        cell(s, l) ==
            LET hit == SelectSeq(agg, LAMBDA g : g.key = s /\ g.time_label = l)
            IN  IF hit = <<>> THEN 0 ELSE hit[1].qty
        cols == FilterIn(order, pivColumns)
        row(s) == [style_number |-> s,
                   cells |-> [l \in Range(cols) |-> cell(s, l)],
                   Total |-> SumSkipNull([i \in 1..Len(cols) |-> cell(s, cols[i])])]
        piv == [i \in 1..Len(pivIndex) |-> row(pivIndex[i])]
    IN  IF present = <<>> \/ "style_number" \notin frame.columns THEN NoGrid
        ELSE [columns |-> cols, rows |-> Reorder(piv, so), rendered |-> TRUE]

\* A column of the frame as a sequence of cells.
Column(frame, c) == [i \in 1..Len(frame.rows) |-> frame.rows[i][c]]

\* Floats are exact fractions num/den; float('nan') is 0/0.
Float(n, d) == [num |-> n, den |-> d]
NotANumber == Float(0, 0)
FloatZero == Float(0, 1)
FloatEq(a, b) ==
    IF a.den = 0 \/ b.den = 0 THEN FALSE ELSE a.num * b.den = b.num * a.den

\* Series.dropna()
DropNull(cells) == SelectSeq(cells, LAMBDA v : v # NULL)

\* Series.mean(): NaN for an empty series.
Mean(cells) == IF cells = <<>> THEN NotANumber ELSE Float(SumSeq(cells), Len(cells))

\* Series.fillna(0)
FillNull0(cells) == [i \in 1..Len(cells) |-> IF cells[i] = NULL THEN 0 ELSE cells[i]]

\* kpi_cards(locale, df): the two metrics it renders.
kpi_cards(frame) ==
    [total_output |->
        IF "daily_production_total" \in frame.columns
        THEN SumSeq(FillNull0(Column(frame, "daily_production_total"))) ELSE 0,
     avg_hourly |->
        IF "average_hourly" \in frame.columns
        THEN Mean(DropNull(Column(frame, "average_hourly"))) ELSE FloatZero]

\* head(10)
TopN == 10

\* df.groupby("style_number", as_index=False)["daily_production_total"].sum():
\* one group per non-null style, null totals skipped.
StyleTotals(frame) ==
    LET styles == {frame.rows[i].style_number : i \in 1..Len(frame.rows)} \ {None}
        cells(s) == LET hit == SelectSeq(frame.rows, LAMBDA r : r.style_number = s)
                    IN  [i \in 1..Len(hit) |-> hit[i].daily_production_total]
    IN  {[style_number |-> s, daily_production_total |-> SumSkipNull(cells(s))] : s \in styles}

\* sort_values("daily_production_total", ascending=...): every arrangement
\* with monotone totals (the default sort is not stable, so rows with equal
\* totals come in an order the library chooses).
RECURSIVE SortValues(_, _)
SortValues(groups, ascending) ==
    IF groups = {} THEN {<<>>}
    ELSE LET first == {g \in groups : \A h \in groups :
                          IF ascending
                          THEN g.daily_production_total <= h.daily_production_total
                          ELSE h.daily_production_total <= g.daily_production_total}
         IN  UNION {{<<g>> \o rest : rest \in SortValues(groups \ {g}, ascending)} : g \in first}

\* DataFrame.head(n)
HeadN(rows, n) == SubSeq(rows, 1, IF Len(rows) < n THEN Len(rows) ELSE n)

\* A faulty variant of top_styles_table: sorted ascending.
top_styles_table_Ascending(frame) ==
    IF IsEmpty(frame) THEN {<<>>}
    ELSE IF ~({"style_number", "daily_production_total"} \subseteq frame.columns) THEN {<<>>}
    ELSE {[i \in 1..Len(HeadN(sorted, TopN)) |-> sorted[i].style_number] :
             sorted \in SortValues(StyleTotals(frame), TRUE)}

\* top_styles_table(locale, df): the lists of style numbers it may return.
top_styles_table(frame) ==
    IF IsEmpty(frame) THEN {<<>>}
    ELSE IF ~({"style_number", "daily_production_total"} \subseteq frame.columns) THEN {<<>>}
    ELSE {[i \in 1..Len(HeadN(sorted, TopN)) |-> sorted[i].style_number] :
             sorted \in SortValues(StyleTotals(frame), FALSE)}

---------------------------------------------------------------------------
(* The frames the pipeline functions are applied to *)

MaxRows == 2
MaxOrderLen == 2

IdCols == {"production_date", "line", "style_number"}
Qty == {NULL, 1, 2}

\* Rows over the id columns and the value columns V, a cell of column c drawn from vals[c].
RowsOver(dates, lines, styles, V, vals) ==
    {[production_date |-> d, line |-> l, style_number |-> s] @@ v :
        d \in dates, l \in lines, s \in styles, v \in {f \in [V -> UNION {vals[c] : c \in V}] :
                                                        \A c \in V : f[c] \in vals[c]}}

FramesOf(columns, rowSet) ==
    {[columns |-> columns, rows |-> rs] : rs \in BoundedSeq(rowSet, MaxRows)}

\* No hour column at all.
FramesNoHour == FramesOf(IdCols, RowsOver(Dates, {"A"}, {"S01", None}, {}, <<>>))

\* One hour column; dates (one of them null) and lines vary.
FramesByDate ==
    FramesOf(IdCols \cup {"t_0830"},
             RowsOver(Dates \cup {NoDate}, Lines, {"S01"}, {"t_0830"}, [t_0830 |-> Qty]))

\* One hour column; styles (one of them null) and dates vary.
FramesByStyle ==
    FramesOf(IdCols \cup {"overtime"},
             RowsOver(Dates, {"A"}, {"S01", "S02", None}, {"overtime"}, [overtime |-> Qty]))

\* Two hour columns.
FramesTwoCols ==
    FramesOf(IdCols \cup {"t_1800", "t_0930"},
             RowsOver(Dates, {"A"}, {"S01", "S02"}, {"t_1800", "t_0930"},
                      [t_1800 |-> Qty, t_0930 |-> Qty]))

\* The shape SELECT * gives: every column of the table, each row's eleven
\* buckets holding one value.
AllCols == IdCols \cup Range(hour_cols) \cup {"category", "daily_production_total", "average_hourly"}
FramesAllCols ==
    FramesOf(AllCols,
             {[c \in AllCols |->
                 CASE c = "production_date" -> d
                   [] c = "line" -> "A"
                   [] c = "style_number" -> s
                   [] c = "category" -> "X"
                   [] c = "daily_production_total" -> t
                   [] c = "average_hourly" -> q
                   [] OTHER -> q] :
              d \in Dates, s \in {"S01", "S02"}, q \in Qty, t \in {NULL, 22}})

\* The summary columns: totals by style, averages alone, and both without style_number.
FramesTotals ==
    FramesOf(IdCols \cup {"daily_production_total"},
             RowsOver({D1}, {"A"}, {"S01", "S02", "S03", None}, {"daily_production_total"},
                      [daily_production_total |-> {NULL, 50, 100, 200}]))
FramesAverages ==
    FramesOf(IdCols \cup {"average_hourly"},
             RowsOver({D1}, {"A"}, {"S01"}, {"average_hourly"}, [average_hourly |-> {NULL, 1, 2, 4}]))
FramesNoStyle ==
    {[columns |-> {"daily_production_total", "average_hourly"}, rows |-> rs] :
        rs \in BoundedSeq([daily_production_total : {NULL, 3}, average_hourly : {NULL, 5}], MaxRows)}

\* More styles than head(10) keeps: style i has total (a * i) % m, and style 1
\* may have a second row.
WideSizes == {11, 12}
WideProfiles == {<<1, 13>>, <<5, 13>>, <<12, 13>>, <<1, 7>>, <<3, 7>>}
WideRow(i, t) ==
    [production_date |-> D1, line |-> "A", style_number |-> StyleSeq[i],
     daily_production_total |-> t]
FramesWide ==
    {[columns |-> IdCols \cup {"daily_production_total"},
      rows |-> [i \in 1..n |-> WideRow(i, (p[1] * i) % p[2])] \o extra] :
        n \in WideSizes, p \in WideProfiles, extra \in {<<>>, <<WideRow(1, 20)>>, <<WideRow(2, NULL)>>}}

\* S1: 100, S2: 50, S3: 200
ExampleTotals ==
    [columns |-> IdCols \cup {"daily_production_total"},
     rows |-> <<WideRow(1, 100), WideRow(2, 50), WideRow(3, 200)>>]

PlainFrames ==
    {EmptyFrame, ExampleTotals} \cup FramesNoHour \cup FramesByDate \cup FramesByStyle
    \cup FramesTwoCols \cup FramesAllCols \cup FramesTotals \cup FramesAverages
    \cup FramesNoStyle \cup FramesWide

\* Frames and priority lists for the reordering of the grid.
FramesReorder ==
    FramesOf(IdCols \cup {"t_0830"},
             RowsOver({D1}, {"A"}, {"S01", "S02", "S03"}, {"t_0830"}, [t_0830 |-> {1}]))
StyleOrders == BoundedSeq({"S01", "S02", "S03"}, MaxOrderLen)

PipelineInputs ==
    {[df |-> f, style_order |-> <<>>] : f \in PlainFrames}
    \cup {[df |-> f, style_order |-> so] : f \in FramesReorder, so \in StyleOrders}

NoOutput == [fn |-> "none"]

PipelineIdle == df = EmptyFrame /\ style_order = <<>> /\ out = NoOutput

InitPipeline ==
    /\ \E in \in PipelineInputs : df = in.df /\ style_order = in.style_order
    /\ out = NoOutput

\* hourly_chart calls melt_hourly(df). melt needs its id columns unless no
\* hour column is present.
MeltHourly ==
    /\ out = NoOutput
    /\ PresentHourCols(df) = <<>> \/ IdCols \subseteq df.columns
    /\ out' = [fn |-> "melt_hourly", result |-> melt_hourly(df)]
    /\ UNCHANGED <<df, style_order, schemaVars, dashboardVars>>

HourlyDetailGrid ==
    /\ out = NoOutput
    /\ out' = [fn |-> "hourly_detail_grid", result |-> hourly_detail_grid(df, style_order)]
    /\ UNCHANGED <<df, style_order, schemaVars, dashboardVars>>

KpiCards ==
    /\ out = NoOutput
    /\ out' = [fn |-> "kpi_cards", result |-> kpi_cards(df)]
    /\ UNCHANGED <<df, style_order, schemaVars, dashboardVars>>

TopStylesTable ==
    /\ out = NoOutput
    /\ \E top \in top_styles_table(df) :
          out' = [fn |-> "top_styles_table", result |-> top]
    /\ UNCHANGED <<df, style_order, schemaVars, dashboardVars>>

---------------------------------------------------------------------------
(* app/db.py: fetch_production; app/streamlit_app.py: load_data and main   *)

DigitChars == <<"0", "1", "2", "3", "4", "5", "6", "7", "8", "9">>
DigitChar(n) == DigitChars[n + 1]
DigitValue(c) == CHOOSE n \in 0..9 : DigitChars[n + 1] = c

\* datetime.date.isoformat(): "YYYY-MM-DD"
isoformat(d) ==
    <<DigitChar(d.year \div 1000), DigitChar((d.year \div 100) % 10),
      DigitChar((d.year \div 10) % 10), DigitChar(d.year % 10), "-",
      DigitChar(d.month \div 10), DigitChar(d.month % 10), "-",
      DigitChar(d.day \div 10), DigitChar(d.day % 10)>>

\* The store reads a 'YYYY-MM-DD' parameter as a date.
ParseDate(t) ==
    [year |-> DigitValue(t[1]) * 1000 + DigitValue(t[2]) * 100 + DigitValue(t[3]) * 10
              + DigitValue(t[4]),
     month |-> DigitValue(t[6]) * 10 + DigitValue(t[7]),
     day |-> DigitValue(t[9]) * 10 + DigitValue(t[10])]

\* a <= b on calendar dates
DateLE(a, b) ==
    \/ a.year < b.year
    \/ a.year = b.year /\ a.month < b.month
    \/ a.year = b.year /\ a.month = b.month /\ a.day <= b.day

IndexOf(seq, x) == CHOOSE i \in 1..Len(seq) : seq[i] = x

\* ORDER BY production_date, line, style_number
RowBefore(a, b) ==
    LET da == IndexOf(DateSeq, a.production_date)
        db == IndexOf(DateSeq, b.production_date)
        la == IndexOf(LineSeq, a.line)
        lb == IndexOf(LineSeq, b.line)
        sa == IndexOf(StyleSeq, a.style_number)
        sb == IndexOf(StyleSeq, b.style_number)
    IN  \/ da < db
        \/ da = db /\ la < lb
        \/ da = db /\ la = lb /\ sa < sb

\* The rows of S in ORDER BY order (no two rows of the table share the three keys).
RECURSIVE OrderBy(_)
OrderBy(S) ==
    IF S = {} THEN <<>>
    ELSE LET first == CHOOSE r \in S : \A q \in S \ {r} : RowBefore(r, q)
         IN  <<first>> \o OrderBy(S \ {first})

\* if not date_to: date_to = date_from; params = {"dfrom": ..., "dto": ...}
\* (load_data passes line=None, category=None, style_like=None: no other
\* filter joins the WHERE clause and no other parameter is bound).
QueryParams(date_from, date_to) ==
    [dfrom |-> date_from,
     dto |-> IF date_to = NoString \/ date_to = <<>> THEN date_from ELSE date_to]

\* A faulty variant of fetch_production: the SELECT runs before the table is looked for.
fetch_production_SelectFirst(tbl, date_from, date_to) ==
    LET params == QueryParams(date_from, date_to)
    IN  IF ~tbl.exists
        THEN [raised |-> "RuntimeError", selects |-> 1, rows |-> <<>>, params |-> params]
        ELSE [raised |-> "no", selects |-> 1, params |-> params,
              rows |-> OrderBy({r \in tbl.rows :
                          /\ DateLE(ParseDate(params.dfrom), r.production_date)
                          /\ DateLE(r.production_date, ParseDate(params.dto))})]

\* fetch_production(date_from, date_to): RuntimeError("Table not found ...")
\* when _table_exists is false, else the rows of the range in ORDER BY order.
fetch_production(tbl, date_from, date_to) ==
    LET params == QueryParams(date_from, date_to)
    IN  IF ~tbl.exists
        THEN [raised |-> "RuntimeError", selects |-> 0, rows |-> <<>>, params |-> params]
        ELSE [raised |-> "no", selects |-> 1, params |-> params,
              rows |-> OrderBy({r \in tbl.rows :
                          /\ DateLE(ParseDate(params.dfrom), r.production_date)
                          /\ DateLE(r.production_date, ParseDate(params.dto))})]

TableCols ==
    {"production_date", "line", "category", "style_number", "t_0830", "overtime",
     "daily_production_total", "average_hourly"}

\* The body of load_data: pd.DataFrame() for no rows, else pd.DataFrame(rows).
FrameOfRows(rows) == IF rows = <<>> THEN EmptyFrame ELSE [columns |-> TableCols, rows |-> rows]

\* @st.cache_data: an entry is keyed by the arguments of load_data.
CacheKey(date_from, date_to) == <<date_from, date_to>>

\* A faulty variant of ClearOnRefresh: the refresh button clears nothing.
ClearOnRefresh_Never(cta, entries) == entries

\* A faulty variant of ClearOnRefresh: the memoization cleared on every run.
ClearOnRefresh_Always(cta, entries) == <<>>

\* if cta: st.cache_data.clear()
ClearOnRefresh(cta, entries) == IF cta THEN <<>> ELSE entries

\* The date picker delivers a date or a tuple of up to two dates. A bare
\* date is [tuple |-> FALSE, items |-> <<d>>].
BareDate(d) == [tuple |-> FALSE, items |-> <<d>>]
TupleOf(items) == [tuple |-> TRUE, items |-> items]

\* The date_val branches of main: (d_from, d_to).
DateRange(date_val, now) ==
    IF date_val.tuple /\ Len(date_val.items) = 2
    THEN LET f == IF date_val.items[1] = NoDate THEN now ELSE date_val.items[1]
             t == IF date_val.items[2] = NoDate THEN f ELSE date_val.items[2]
         IN  <<f, t>>
    ELSE IF ~date_val.tuple THEN <<date_val.items[1], date_val.items[1]>>
    ELSE <<now, now>>

\* The characters of a style number, and str.lower().
StyleChars(st) == <<"S", "0", IF st = "S01" THEN "1" ELSE IF st = "S02" THEN "2" ELSE "3">>
Lower(c) == IF c = "S" THEN "s" ELSE c
LowerAll(t) == [i \in 1..Len(t) |-> Lower(t[i])]

\* Series.str.contains(pat, case=False, na=False) for a pattern of plain characters.
Contains(st, pat) ==
    /\ st # None
    /\ LET hay == LowerAll(StyleChars(st))
           needle == LowerAll(pat)
       IN  \E i \in 0..(Len(hay) - Len(needle)) : SubSeq(hay, i + 1, i + Len(needle)) = needle

\* The client-side filters of main: lines, categories, then the selected
\* styles or, when none is selected, the text search.
ApplyFilters(frame, f) ==
    LET byLine == IF f.sel_lines # {}
                  THEN SelectSeq(frame.rows, LAMBDA r : r.line \in f.sel_lines) ELSE frame.rows
        byCat == IF f.sel_cats # {} /\ "category" \in frame.columns
                 THEN SelectSeq(byLine, LAMBDA r : r.category \in f.sel_cats) ELSE byLine
        byStyle == IF f.sel_styles # {}
                   THEN SelectSeq(byCat, LAMBDA r : r.style_number \in f.sel_styles)
                   ELSE IF f.style_like # <<>>
                        THEN SelectSeq(byCat, LAMBDA r : Contains(r.style_number, f.style_like))
                        ELSE byCat
    IN  [columns |-> frame.columns, rows |-> byStyle]

\* load_data(date_from, date_to) behind @st.cache_data: the memoized frame
\* on a hit; on a miss the query, whose frame is memoized unless it raised.
load_data(entries, tbl, date_from, date_to) ==
    LET key == CacheKey(date_from, date_to)
        res == fetch_production(tbl, date_from, date_to)
        frame == FrameOfRows(res.rows)
    IN  IF key \in DOMAIN entries
        THEN [raised |-> "no", df |-> entries[key], queries |-> 0, selects |-> 0,
              entries |-> entries]
        ELSE IF res.raised # "no"
        THEN [raised |-> res.raised, df |-> EmptyFrame, queries |-> 1, selects |-> res.selects,
              entries |-> entries]
        ELSE [raised |-> "no", df |-> frame, queries |-> 1, selects |-> res.selects,
              entries |-> (key :> frame) @@ entries]

\* sorted(df[c].dropna().unique().tolist()) if c in df else [] (as a set: the
\* multiselect returns a subset of its options)
Options(frame, c) ==
    IF c \in frame.columns THEN {frame.rows[i][c] : i \in 1..Len(frame.rows)} \ {None} ELSE {}

MaxSelected == 1
StyleSearches == {<<>>, <<"s", "0", "1">>}
AtMost(S, n) == {x \in SUBSET S : Cardinality(x) <= n}

\* What the four filter widgets can deliver for the loaded frame.
FilterChoices(frame) ==
    [sel_lines : AtMost(Options(frame, "line"), MaxSelected),
     sel_cats : AtMost(Options(frame, "category"), MaxSelected),
     sel_styles : AtMost(Options(frame, "style_number"), MaxSelected),
     style_like : StyleSearches]

\* What the date picker can deliver.
DateVals ==
    {BareDate(d) : d \in Dates}
    \cup {TupleOf(<<>>)}
    \cup {TupleOf(<<d>>) : d \in Dates}
    \cup {TupleOf(<<p[1], p[2]>>) : p \in {q \in Dates \X Dates : DateLE(q[1], q[2])}}
    \cup {TupleOf(<<d, NoDate>>) : d \in Dates}

\* The rows the table can hold.
RowUniverse ==
    {[production_date |-> D1, line |-> "A", category |-> "X", style_number |-> "S01",
      t_0830 |-> 5, overtime |-> NULL, daily_production_total |-> 100, average_hourly |-> 2],
     [production_date |-> D2, line |-> "B", category |-> "Y", style_number |-> "S02",
      t_0830 |-> 7, overtime |-> 1, daily_production_total |-> 200, average_hourly |-> NULL]}

\* Rendered before the data is loaded: title, locale selector, date picker, refresh button.
Preamble == {"title", "locale_select", "date_input", "refresh_button"}

Idle == [status |-> "idle"]

\* One run of main(): the script Streamlit executes on every interaction,
\* with what the widgets deliver in this run.
Main ==
    /\ last = Idle
    /\ \E date_val \in DateVals, cta \in BOOLEAN :
       \E range \in {DateRange(date_val, today)} :
       \E loaded \in {load_data(ClearOnRefresh(cta, cache), table,
                                isoformat(range[1]), isoformat(range[2]))} :
          LET d_from == range[1]
              d_to == range[2]
              run == [date_val |-> date_val, cta |-> cta, d_from |-> d_from, d_to |-> d_to,
                      queries |-> loaded.queries, selects |-> loaded.selects,
                      had_fetched |-> ~cta /\ <<d_from, d_to>> \in DOMAIN fetched,
                      had_entry |->
                         CacheKey(isoformat(d_from), isoformat(d_to)) \in DOMAIN cache,
                      df |-> loaded.df]
              kept == IF cta THEN <<>> ELSE fetched
          IN  /\ cache' = loaded.entries
              /\ fetched' = IF loaded.queries = 1 /\ loaded.raised = "no"
                            THEN (<<d_from, d_to>> :>
                                    {r \in table.rows : /\ DateLE(d_from, r.production_date)
                                                        /\ DateLE(r.production_date, d_to)})
                                 @@ kept
                            ELSE kept
              /\ IF loaded.raised = "RuntimeError"
                 THEN last' = run @@ [status |-> "error", raised |-> FALSE,
                                      rendered |-> Preamble \cup {"error"}]
                 ELSE IF loaded.raised # "no"
                 THEN last' = run @@ [status |-> "crashed", raised |-> TRUE, rendered |-> Preamble]
                 ELSE IF IsEmpty(loaded.df)
                 THEN last' = run @@ [status |-> "no_data", raised |-> FALSE,
                                      rendered |-> Preamble \cup {"info"}]
                 ELSE \E f \in FilterChoices(loaded.df) :
                      \E shown \in {ApplyFilters(loaded.df, f)} :
                      \E top \in top_styles_table(shown) :
                         last' = run @@
                            [status |-> "rendered", raised |-> FALSE, filters |-> f,
                             shown |-> shown, kpi |-> kpi_cards(shown), top_styles |-> top,
                             rendered |->
                                Preamble \cup {"filters", "kpi", "tabs", "download"}
                                \cup (IF /\ ~IsEmpty(shown)
                                         /\ {"style_number", "daily_production_total"}
                                               \subseteq shown.columns
                                      THEN {"top_styles"} ELSE {})
                                \cup (IF melt_hourly(shown) # <<>> THEN {"trend"} ELSE {})
                                \cup (IF hourly_detail_grid(shown, top).rendered
                                      THEN {"detail"} ELSE {})]
    /\ UNCHANGED <<today, table, schemaVars, pipelineVars>>

\* The run is over and the page waits for the next event.
AwaitEvent ==
    /\ last # Idle
    /\ last' = Idle
    /\ UNCHANGED <<today, table, cache, fetched, schemaVars, pipelineVars>>

DateRanges == Dates \X Dates

\* ttl=60: an entry older than a minute is dropped.
Expire ==
    /\ last = Idle
    /\ \E rg \in DateRanges :
          LET key == CacheKey(isoformat(rg[1]), isoformat(rg[2]))
          IN  /\ key \in DOMAIN cache
              /\ cache' = [k \in DOMAIN cache \ {key} |-> cache[k]]
              /\ fetched' = [k \in DOMAIN fetched \ {rg} |-> fetched[k]]
    /\ UNCHANGED <<today, table, last, schemaVars, pipelineVars>>

\* The owner of the table inserts or deletes a row, or drops or creates the table.
InsertRow ==
    /\ last = Idle /\ table.exists
    /\ \E r \in RowUniverse \ table.rows : table' = [table EXCEPT !.rows = @ \cup {r}]
    /\ UNCHANGED <<today, cache, fetched, last, schemaVars, pipelineVars>>

DeleteRow ==
    /\ last = Idle /\ table.exists
    /\ \E r \in table.rows : table' = [table EXCEPT !.rows = @ \ {r}]
    /\ UNCHANGED <<today, cache, fetched, last, schemaVars, pipelineVars>>

DropTable ==
    /\ last = Idle /\ table.exists
    /\ table' = [exists |-> FALSE, rows |-> {}]
    /\ UNCHANGED <<today, cache, fetched, last, schemaVars, pipelineVars>>

CreateTable ==
    /\ last = Idle /\ ~table.exists
    /\ table' = [exists |-> TRUE, rows |-> {}]
    /\ UNCHANGED <<today, cache, fetched, last, schemaVars, pipelineVars>>

\* Midnight passes: dt.date.today() moves on.
Midnight ==
    /\ last = Idle
    /\ \E i \in 1..(Len(DateSeq) - 1) : today = DateSeq[i] /\ today' = DateSeq[i + 1]
    /\ UNCHANGED <<table, cache, fetched, last, schemaVars, pipelineVars>>

InitDashboard ==
    /\ today = DateSeq[1]
    /\ table = [exists |-> FALSE, rows |-> {}]
    /\ cache = <<>>
    /\ fetched = <<>>
    /\ last = Idle

---------------------------------------------------------------------------
(* Specifications *)

DashboardIdle == InitDashboard

NextPipeline ==
    \/ MeltHourly
    \/ HourlyDetailGrid
    \/ KpiCards
    \/ TopStylesTable

InitPipelineSpec == InitPipeline /\ SchemaIdle /\ DashboardIdle

SpecPipeline == InitPipelineSpec /\ [][NextPipeline]_vars

NextSchema == TableIdent

InitSchemaSpec == InitSchema /\ PipelineIdle /\ DashboardIdle

SpecSchema == InitSchemaSpec /\ [][NextSchema]_vars

---------------------------------------------------------------------------
(* Claims about the pipeline (SpecPipeline) and the schema (SpecSchema) *)

\* The sum of f[x] over the finite set S.
RECURSIVE SumOver(_, _)
SumOver(S, f) ==
    IF S = {} THEN 0
    ELSE LET x == CHOOSE y \in S : TRUE IN f[x] + SumOver(S \ {x}, f)

\* The eleven time buckets in display order: label and raw field.
TimeBuckets ==
    << [label |-> <<"0", "8", ":", "3", "0">>, field |-> "t_0830"],
       [label |-> <<"0", "9", ":", "3", "0">>, field |-> "t_0930"],
       [label |-> <<"1", "0", ":", "0", "0">>, field |-> "t_1000"],
       [label |-> <<"1", "1", ":", "3", "0">>, field |-> "t_1130"],
       [label |-> <<"1", "3", ":", "3", "0">>, field |-> "t_1330"],
       [label |-> <<"1", "4", ":", "3", "0">>, field |-> "t_1430"],
       [label |-> <<"1", "5", ":", "3", "0">>, field |-> "t_1530"],
       [label |-> <<"1", "6", ":", "3", "0">>, field |-> "t_1630"],
       [label |-> <<"1", "7", ":", "3", "0">>, field |-> "t_1730"],
       [label |-> <<"1", "8", ":", "0", "0">>, field |-> "t_1800"],
       [label |-> <<"O", "T">>, field |-> "overtime"] >>
BucketFields == {TimeBuckets[i].field : i \in 1..Len(TimeBuckets)}

\* The non-null cells (row index, field) of the given fields in the rows that satisfy want.
CellsWhere(frame, fields, want(_)) ==
    {c \in (1..Len(frame.rows)) \X (fields \cap frame.columns) :
        want(frame.rows[c[1]]) /\ frame.rows[c[1]][c[2]] # NULL}
CellSum(frame, cells) == SumOver(cells, [c \in cells |-> frame.rows[c[1]][c[2]]])

QtyOfDate(result, d) ==
    LET hit == SelectSeq(result, LAMBDA r : r.production_date = d)
    IN  SumSeq([i \in 1..Len(hit) |-> hit[i].qty])

\* C1: melt_hourly preserves the total per date: for a frame with the id
\* columns and at least one bucket field, and every (non-null) date d in it,
\* the qty of the output rows of date d sum to the sum of the non-null bucket
\* cells of the input rows of date d, whatever their line and style.
C1_MeltPreservesDateTotals ==
    (/\ out.fn = "melt_hourly"
     /\ IdCols \subseteq df.columns
     /\ BucketFields \cap df.columns # {})
    => \A d \in {df.rows[i].production_date : i \in 1..Len(df.rows)} \ {NoDate} :
          QtyOfDate(out.result, d)
            = CellSum(df, CellsWhere(df, BucketFields, LAMBDA r : r.production_date = d))

\* Two rows of one date that differ in line, a null cell beside a counted one.
C1_Witness ==
    /\ out.fn = "melt_hourly"
    /\ Len(df.rows) = 2
    /\ "t_0830" \in df.columns
    /\ df.rows[1].production_date = D2 /\ df.rows[2].production_date = D2
    /\ df.rows[1].line # df.rows[2].line
    /\ df.rows[1].t_0830 = 1 /\ df.rows[2].t_0830 = 2
    /\ QtyOfDate(out.result, D2) = 3

\* C2: in the grid, for every style row: the displayed bucket columns are
\* the present bucket fields' labels in the fixed order, each cell is the sum
\* of that field over the input rows of the style (all dates), and Total is
\* the sum of the row's displayed cells.
C2_GridTotalIsRowSum ==
    (out.fn = "hourly_detail_grid" /\ out.result.rendered)
    => \A k \in 1..Len(out.result.rows) :
          LET row == out.result.rows[k]
              shown == SelectSeq(TimeBuckets, LAMBDA b : b.field \in df.columns)
          IN  /\ out.result.columns = [i \in 1..Len(shown) |-> shown[i].label]
              /\ \A i \in 1..Len(shown) :
                    row.cells[shown[i].label]
                      = CellSum(df, CellsWhere(df, {shown[i].field},
                                               LAMBDA r : r.style_number = row.style_number))
              /\ row.Total = SumSeq([i \in 1..Len(shown) |-> row.cells[shown[i].label]])

\* A style with rows on two dates and two displayed buckets, out of hour_cols order in the frame.
C2_Witness ==
    /\ out.fn = "hourly_detail_grid"
    /\ out.result.rendered
    /\ Len(out.result.columns) = 2
    /\ Len(df.rows) = 2
    /\ df.rows[1].style_number = "S02" /\ df.rows[2].style_number = "S02"
    /\ df.rows[1].production_date # df.rows[2].production_date
    /\ out.result.rows[1].Total = 5

StylesOfRows(rows) == [i \in 1..Len(rows) |-> rows[i].style_number]

\* s without its repeated elements, first occurrences kept.
RECURSIVE Dedup(_)
Dedup(s) ==
    IF s = <<>> THEN <<>>
    ELSE <<Head(s)>> \o Dedup(FilterOut(Tail(s), {Head(s)}))

Count(s, x) == Cardinality({i \in 1..Len(s) : s[i] = x})

C3_HoldsWithoutRepeats ==
    (out.fn = "hourly_detail_grid" /\ out.result.rendered /\ Dedup(style_order) = style_order)
    => LET base == StylesOfRows(hourly_detail_grid(df, <<>>).rows)
           got == StylesOfRows(out.result.rows)
           listed == FilterIn(style_order, Range(base))
       IN  /\ got = listed \o FilterOut(base, Range(listed))
           /\ \A s \in Range(base) : Count(got, s) = 1

\* [A-Za-z_][A-Za-z0-9_]* and nothing else.
IsIdentifier(s) ==
    /\ Len(s) >= 1
    /\ s[1] \in Letters \cup {Underscore}
    /\ \A i \in 1..Len(s) : s[i] \in Letters \cup Digits \cup {Underscore}

\* The configured value _get_schema reads: the secret, else PGSCHEMA.
ConfiguredSchema ==
    IF secrets_schema # NoString /\ secrets_schema # <<>> THEN secrets_schema ELSE env_schema

\* C4: the schema interpolated by _table_ident is an identifier (letters,
\* digits, underscores, no leading digit), and a configured value that is
\* not one is replaced with "public".
C4_SchemaIsIdentifier ==
    ident # NoString
    => LET schema == SubSeq(ident, 1, Len(ident) - Len(TableSuffix))
       IN  /\ IsIdentifier(schema)
           /\ (ConfiguredSchema # NoString /\ ~IsIdentifier(ConfiguredSchema)) => schema = Public

\* The example of the specification is rejected.
C4_InjectionExampleRejected ==
    (ident # NoString /\ ConfiguredSchema = InjectionExample) => ident = Public \o TableSuffix

\* C9: avg_hourly is the mean of the non-null average_hourly values, zero
\* when the field is absent or every value is null (or there is no row);
\* total_output is the sum of daily_production_total with nulls as zero, zero
\* when the field is absent.
C9_KpiValues ==
    out.fn = "kpi_cards"
    => LET r == out.result
           avgCells == CellsWhere(df, {"average_hourly"}, LAMBDA x : TRUE)
           totCells == CellsWhere(df, {"daily_production_total"}, LAMBDA x : TRUE)
       IN  /\ r.total_output = CellSum(df, totCells)
           /\ IF avgCells = {}
              THEN FloatEq(r.avg_hourly, FloatZero)
              ELSE FloatEq(r.avg_hourly, Float(CellSum(df, avgCells), Cardinality(avgCells)))

\* The sum of daily_production_total over the rows of style s.
StyleSum(frame, s) ==
    CellSum(frame, CellsWhere(frame, {"daily_production_total"}, LAMBDA r : r.style_number = s))

\* C10: top_styles_table returns at most 10 distinct styles in order of
\* non-increasing sum of daily_production_total, no style left out having a
\* larger sum than one included; nothing for an empty frame or when
\* style_number or daily_production_total is missing; and [S3, S1, S2] for
\* the sums S1: 100, S2: 50, S3: 200.
C10_TopStyles ==
    out.fn = "top_styles_table"
    => LET r == out.result
           missing == ~({"style_number", "daily_production_total"} \subseteq df.columns)
           styles == IF missing THEN {}
                     ELSE {df.rows[i].style_number : i \in 1..Len(df.rows)} \ {None}
       IN  /\ Len(r) <= 10
           /\ \A i, j \in 1..Len(r) : i < j =>
                 /\ r[i] # r[j]
                 /\ StyleSum(df, r[i]) >= StyleSum(df, r[j])
           /\ Range(r) \subseteq styles
           /\ \A s \in styles \ Range(r) : \A i \in 1..Len(r) : StyleSum(df, s) <= StyleSum(df, r[i])
           /\ (df.rows = <<>> \/ missing) => r = <<>>
           /\ df = ExampleTotals => r = <<"S03", "S01", "S02">>

\* More than ten styles: ten are returned, and one with a smaller sum is left out.
C10_Witness ==
    /\ out.fn = "top_styles_table"
    /\ Len(out.result) = 10
    /\ Cardinality({df.rows[i].style_number : i \in 1..Len(df.rows)}) = 12
    /\ out.result[1] = "S12"
    /\ "S01" \notin Range(out.result)

Init == InitDashboard /\ SchemaIdle /\ PipelineIdle

Next ==
    \/ Main
    \/ AwaitEvent
    \/ Expire
    \/ InsertRow
    \/ DeleteRow
    \/ DropTable
    \/ CreateTable
    \/ Midnight

Spec == Init /\ [][Next]_vars

---------------------------------------------------------------------------
(* Claims about main() (Spec) *)

InRange(r, d_from, d_to) == DateLE(d_from, r.production_date) /\ DateLE(r.production_date, d_to)

NotRendered == {"filters", "kpi", "tabs", "top_styles", "trend", "detail", "download", "info"}

\* C5: when the table does not exist, fetch_production raises without
\* running the data SELECT, and main reports the error and returns: no
\* filter controls, KPI cards, top-styles table, trend chart, detail grid or
\* download are rendered, and nothing propagates out of main.
C5_MissingTableAbortsCleanly ==
    (last # Idle /\ ~table.exists /\ last.queries = 1)
    => /\ last.selects = 0
       /\ last.status = "error"
       /\ "error" \in last.rendered
       /\ last.rendered \cap NotRendered = {}
       /\ ~last.raised

\* The table was dropped after an earlier range had been fetched and memoized.
C5_Witness ==
    /\ last # Idle
    /\ ~table.exists
    /\ last.queries = 1
    /\ last.status = "error"
    /\ DOMAIN cache # {}

\* The single date a date_val holds: a bare date, a one-element tuple, or a
\* two-element tuple whose end is missing; NoDate for any other form.
SingleDateOf(date_val) ==
    IF ~date_val.tuple THEN date_val.items[1]
    ELSE IF Len(date_val.items) = 1 THEN date_val.items[1]
    ELSE IF Len(date_val.items) = 2 /\ date_val.items[2] = NoDate THEN date_val.items[1]
    ELSE NoDate

\* C6: a single selected date d, in each form the date picker can deliver
\* it, is treated as the range (d, d): main loads date_from = date_to = d, and
\* fetch_production without date_to binds the parameters of date_to = date_from.
C6_SingleDateIsRange ==
    (last # Idle /\ SingleDateOf(last.date_val) # NoDate)
    => LET d == SingleDateOf(last.date_val)
       IN  /\ last.d_from = d
           /\ last.d_to = d
           /\ QueryParams(isoformat(d), NoString) = QueryParams(isoformat(d), isoformat(d))

\* The same statement without the one-element tuple.
C6_HoldsForOtherForms ==
    (/\ last # Idle
     /\ SingleDateOf(last.date_val) # NoDate
     /\ ~(last.date_val.tuple /\ Len(last.date_val.items) = 1))
    => LET d == SingleDateOf(last.date_val)
       IN  /\ last.d_from = d
           /\ last.d_to = d
           /\ QueryParams(isoformat(d), NoString) = QueryParams(isoformat(d), isoformat(d))

\* The filter specification: lines, categories and styles by membership, the
\* text search (case-insensitive) only when no style is selected.
Keeps(f, r) ==
    /\ f.sel_lines = {} \/ r.line \in f.sel_lines
    /\ f.sel_cats = {} \/ r.category \in f.sel_cats
    /\ IF f.sel_styles # {} THEN r.style_number \in f.sel_styles
       ELSE f.style_like = <<>> \/ Contains(r.style_number, f.style_like)

\* C7: in a run without refresh for a date range that was fetched
\* successfully and has neither been cleared nor expired since, the store is
\* not queried, whatever the line, category, style and search filters are,
\* and the filters are applied to the rows fetched then.
C7_FiltersNeverRequery ==
    (last # Idle /\ last.had_fetched)
    => LET memo == fetched[<<last.d_from, last.d_to>>]
       IN  /\ last.queries = 0
           /\ last.selects = 0
           /\ last.status \in {"no_data", "rendered"}
           /\ last.status = "no_data" => memo = {}
           /\ last.status = "rendered" =>
                 Range(last.shown.rows) = {r \in memo : Keeps(last.filters, r)}

\* A filtered run served from the memoized rows while the table has moved on.
C7_Witness ==
    /\ last # Idle
    /\ last.had_fetched
    /\ last.status = "rendered"
    /\ last.filters.sel_lines # {}
    /\ Len(last.shown.rows) = 1
    /\ Len(last.df.rows) = 2
    /\ table.rows = {}

\* C8: a run in which refresh is triggered clears the memoization before it
\* loads, so its rows come from a new query of the store; and the frame a run
\* loads for a date range is the one fetched for that range, never an entry
\* memoized for another range.
C8_RefreshRequeries ==
    /\ (last # Idle /\ last.cta)
       => /\ last.queries = 1
          /\ DOMAIN cache \subseteq {<<isoformat(last.d_from), isoformat(last.d_to)>>}
          /\ last.status \in {"no_data", "rendered"} =>
                Range(last.df.rows) = {r \in table.rows : InRange(r, last.d_from, last.d_to)}
    /\ (last # Idle /\ last.status \in {"no_data", "rendered"})
       => /\ <<last.d_from, last.d_to>> \in DOMAIN fetched
          /\ Range(last.df.rows) = fetched[<<last.d_from, last.d_to>>]
          /\ \A r \in Range(last.df.rows) : InRange(r, last.d_from, last.d_to)

\* Refresh with the range memoized: the run queries again and shows the table's rows.
C8_Witness ==
    /\ last # Idle
    /\ last.cta
    /\ last.had_entry
    /\ last.queries = 1
    /\ last.status = "rendered"
    /\ Len(last.df.rows) = 2

=============================================================================
